---- MODULE Spec2Model ----
(***************************************************************************)
(* cppp-base: the buffer-backed wide string cppp::WString.                 *)
(*                                                                         *)
(* The model keeps the heap (the blocks of malloc, realloc and free, each  *)
(* a sequence of code units), the WString objects (their three fields),    *)
(* the last operation run and the instance-form search call in progress.   *)
(* Writes into a block are counted in bytes, because _update_buffer_size   *)
(* hands memset a byte count while the buffer is an array of CharType.     *)
(*                                                                         *)
(* Spec        two objects, any constructions and resizes                  *)
(* SpecResize  one object, resized to every length up to MaxLen            *)
(* SpecText    objects built from texts, copies, moves and the             *)
(*             copy-returning transforms                                   *)
(* SpecSearch  objects built from texts and the instance-form searches     *)
(* SpecCase    objects built from texts and the comparisons                *)
(*             s.upper().lower() == s.lower(), s.lower().upper() == ...    *)
(* SpecAt      objects built from texts, read through at(index)            *)
(* SpecSize    the capacity and byte count computed for every length       *)
(* SpecThrow   one object and its resizes, with the construction of the    *)
(*             MemoryError of a failed one step by step                    *)
(***************************************************************************)
EXTENDS Integers, Sequences, FiniteSets, TLC

\* ---------------------------------------------------------------- constants

\* WString::DEFAULT_ALLOCATE_SIZE
DEFAULT_ALLOCATE_SIZE == 10

\* sizeof(WString::CharType), CharType = wchar_t (4 bytes on the LP64 targets)
CharSize == 4

\* WString::npos, (SizeType)(-1): the value no offset or count takes
npos == -1

\* ------------------------------------------------------------------- bounds

\* largest length handed to _update_buffer_size
MaxLen == 11

\* a byte of uninitialised memory holds a value in 0..JunkMax
JunkMax == 1

\* longest text handed to a constructor
MaxText == 2

\* sizeof(WString::SizeType) in the model: size_t scaled down from 8 bytes,
\* so that lengths up to the largest SizeType value can be enumerated
SizeBytes == 2

\* largest index handed to at: past the capacity of the strings built
MaxIndex == 11

\* largest width, tab size and repeat count handed to a transform
MaxArg == 2

\* stack frames a run of nested calls may take before the stack is exhausted
StackFrames == 3

\* the WString objects of a run, numbered in the order of their construction
Strs == {1, 2}

\* heap addresses; 0 is nullptr.  Two more blocks than objects, so that
\* realloc can always move a block and an expression has room for the
\* temporaries it builds.
Addrs == 1..(Cardinality(Strs) + 2)

\* the lengths the two-object specification resizes to: those at, one above
\* and one below a multiple of the growth quantum
Lengths ==
    {n \in 0..MaxLen :
        n % DEFAULT_ALLOCATE_SIZE \in {0, 1, DEFAULT_ALLOCATE_SIZE - 1}}

\* the code units of the texts: tab, 'A' and 'a'
Alphabet == {9, 65, 97}

Texts == UNION {[1..n -> Alphabet] : n \in 0..MaxText}

Min(a, b) == IF a < b THEN a ELSE b

\* ---------------------------------------------------------------------- heap

FreeBlock == [alloc |-> FALSE, mem |-> <<>>]

\* a free that releases nothing
FreeNothing(h, p) == h

\* free(p): free(nullptr) does nothing
Free(h, p) == IF p = 0 THEN h ELSE [h EXCEPT ![p] = FreeBlock]

\* where realloc may leave the block: in place, or at a free address (the
\* lowest one: which free address malloc picks makes no difference here)
Placements(h, p) ==
    LET free == {a \in Addrs : ~h[a].alloc /\ a # p} IN
    (IF p = 0 THEN {} ELSE {p})
    \cup {a \in free : \A b \in free : a <= b}

\* what realloc(p, nbytes) may do: fail, resize in place, or move the block;
\* the bytes it adds, if any, are uninitialised (junk)
ReallocOutcomes(h, p, nbytes) ==
    LET grows == p = 0 \/ Len(h[p].mem) * CharSize < nbytes IN
    {[ok |-> FALSE, addr |-> 0, junk |-> 0]}
    \cup {[ok |-> TRUE, addr |-> q, junk |-> g] :
            q \in Placements(h, p),
            g \in IF grows THEN 0..JunkMax ELSE {0}}

\* A block is a sequence of code units.  A unit is the number its CharSize
\* bytes spell, the byte at the lowest address being the least significant
\* (the byte order of the x86 and ARM targets).

\* 256^k, for the byte offsets within a code unit
RECURSIVE Pow256(_)
Pow256(k) == IF k <= 0 THEN 1 ELSE 256 * Pow256(k - 1)

\* the number of values of SizeType; arithmetic in SizeType is modulo it
SizeModulus == Pow256(SizeBytes)

\* the code unit whose CharSize bytes all hold g
JunkUnit(g) == g * (1 + Pow256(1) + Pow256(2) + Pow256(3))

\* a realloc that obtains a new block without copying the old bytes into it
ReallocFresh(h, p, nbytes, r) ==
    LET old  == IF p = 0 THEN <<>> ELSE h[p].mem
        n    == nbytes \div CharSize
        keep == IF r.addr = p THEN Min(Len(old), n) ELSE 0
        mem  == [i \in 1..n |-> IF i <= keep THEN old[i] ELSE JunkUnit(r.junk)]
    IN  [Free(h, IF r.addr = p THEN 0 ELSE p) EXCEPT
            ![r.addr] = [alloc |-> TRUE, mem |-> mem]]

\* the heap after a successful realloc(p, nbytes) with outcome r
Realloc(h, p, nbytes, r) ==
    LET old  == IF p = 0 THEN <<>> ELSE h[p].mem
        n    == nbytes \div CharSize
        keep == Min(Len(old), n)
        mem  == [i \in 1..n |-> IF i <= keep THEN old[i] ELSE JunkUnit(r.junk)]
    IN  [Free(h, IF r.addr = p THEN 0 ELSE p) EXCEPT
            ![r.addr] = [alloc |-> TRUE, mem |-> mem]]

\* v with its c lowest-addressed bytes cleared
ClearBytes(v, c) ==
    IF c <= 0 THEN v ELSE IF c >= CharSize THEN 0
    ELSE (v \div Pow256(c)) * Pow256(c)

\* memset(base + off, 0, n): off in code units, n in bytes
Memset(mem, off, n) ==
    [i \in 1..Len(mem) |->
        IF i <= off THEN mem[i] ELSE ClearBytes(mem[i], n - (i - 1 - off) * CharSize)]

\* ------------------------------------------------------------------- WString

\* the fields as their default member initialisers leave them
NullString == [live |-> TRUE, _raw_data |-> 0, _length |-> 0, _allocated_size |-> 0]

\* a slot holding no object
NoString == [live |-> FALSE, _raw_data |-> 0, _length |-> 0, _allocated_size |-> 0]

\* new_size without the rounding to the growth quantum
NewSizeExact(length) == length

\* new_size rounded down to the growth quantum: the division without the
\* (SizeType)(bool)(length % DEFAULT_ALLOCATE_SIZE) term
NewSizeRoundedDown(length) ==
    (length \div DEFAULT_ALLOCATE_SIZE) * DEFAULT_ALLOCATE_SIZE

\* new_size of _update_buffer_size
NewSize(length) ==
    ((length \div DEFAULT_ALLOCATE_SIZE
        + (IF length % DEFAULT_ALLOCATE_SIZE # 0 THEN 1 ELSE 0))
     * DEFAULT_ALLOCATE_SIZE) % SizeModulus

\* new_size * sizeof(CharType), the byte count handed to realloc
ByteCount(new_size) == (new_size * CharSize) % SizeModulus

\* the realloc-failed branch had realloc's result been assigned to _raw_data
\* directly: the pointer is lost before the throw
ReallocFailedLosesBuffer(s, h, length) ==
    [ok |-> FALSE, s |-> [s EXCEPT !._raw_data = 0], h |-> h]

\* the realloc-failed branch: throw MemoryError, nothing assigned yet
ReallocFailed(s, h, length) == [ok |-> FALSE, s |-> s, h |-> h]

\* a memset count covering the whole buffer in bytes, as if the clearing
\* started at the buffer's first byte
ClearCountWholeBuffer(new_size, length) == (new_size * CharSize) % SizeModulus

\* _allocated_size - _length, the count handed to memset
ClearCount(new_size, length) == (new_size - length) % SizeModulus

\* the offsets, in bytes from the buffer's start, that
\* memset(_raw_data + off, 0, n) writes
MemsetRange(off, n) == {off * CharSize + b : b \in 0..(n - 1)}

\* the statements after the label end with a capacity that only grows:
\* _allocated_size keeps the larger of its old value and new_size
AssignAndClearNeverShrinks(s, h, new_buffer, new_size, length) ==
    LET s1 == [s EXCEPT !._raw_data = new_buffer,
                        !._allocated_size =
                            IF new_size < @ /\ new_buffer # 0 THEN @ ELSE new_size,
                        !._length = length]
    IN  [ok |-> TRUE,
         s  |-> s1,
         h  |-> IF new_buffer = 0 THEN h
                ELSE [h EXCEPT ![new_buffer].mem =
                        Memset(@, length, ClearCount(new_size, length))]]

\* the statements after the label end had _raw_data been assigned only when
\* realloc returned a buffer: the new_size == 0 path keeps the freed pointer
AssignAndClearKeepsPointer(s, h, new_buffer, new_size, length) ==
    LET s1 == [s EXCEPT !._raw_data = IF new_buffer = 0 THEN @ ELSE new_buffer,
                        !._allocated_size = new_size,
                        !._length = length]
    IN  [ok |-> TRUE,
         s  |-> s1,
         h  |-> IF new_buffer = 0 THEN h
                ELSE [h EXCEPT ![new_buffer].mem =
                        Memset(@, length, ClearCount(new_size, length))]]

\* the statements after the label end: assign the fields, then memset
AssignAndClear(s, h, new_buffer, new_size, length) ==
    LET s1 == [s EXCEPT !._raw_data = new_buffer,
                        !._allocated_size = new_size,
                        !._length = length]
    IN  [ok |-> TRUE,
         s  |-> s1,
         h  |-> IF new_buffer = 0 THEN h
                ELSE [h EXCEPT ![new_buffer].mem =
                        Memset(@, length, ClearCount(new_size, length))]]

\* the outcomes of the realloc call _update_buffer_size(length) makes on s
Outcomes(s, h, length) ==
    ReallocOutcomes(h, s._raw_data, ByteCount(NewSize(length)))

\* _update_buffer_size with the new_size == 0 path returning after the free
\* instead of going to the label end: the fields keep their values
UpdateBufferSizeReturnsEarly(s, h, length, r) ==
    LET new_size == NewSize(length) IN
    IF new_size = 0
    THEN [ok |-> TRUE, s |-> s, h |-> Free(h, s._raw_data)]
    ELSE IF ~r.ok
    THEN ReallocFailed(s, h, length)
    ELSE AssignAndClear(s, Realloc(h, s._raw_data, ByteCount(new_size), r),
                        r.addr, new_size, length)

\* WString::_update_buffer_size(length) on object s with realloc outcome r
UpdateBufferSize(s, h, length, r) ==
    LET new_size == NewSize(length) IN
    IF new_size = 0
    THEN AssignAndClear(s, Free(h, s._raw_data), 0, new_size, length)
    ELSE IF ~r.ok
    THEN ReallocFailed(s, h, length)
    ELSE AssignAndClear(s, Realloc(h, s._raw_data, ByteCount(new_size), r),
                        r.addr, new_size, length)

\* --------------------------------------------------------------------- state

VARIABLES strs, heap, last, call

vars == <<strs, heap, last, call>>

\* last: the operation that ran last, the object it ran on, its argument
\* (the requested length, or the source object) when it returned, and
\* whether it returned (ok) or threw MemoryError
NoOp == [op |-> "none", self |-> 0, arg |-> 0, ok |-> TRUE]

Done(name, i, arg, ok) ==
    [op |-> name, self |-> i, arg |-> IF ok THEN arg ELSE 0, ok |-> ok]

\* call: the instance-form search call, or the throw of MemoryError, in
\* progress, if any
NoCall == [status |-> "idle"]

Init ==
    /\ strs = [i \in Strs |-> NoString]
    /\ heap = [a \in Addrs |-> FreeBlock]
    /\ last = NoOp
    /\ call = NoCall

\* the object a declaration constructs next
IsNext(i) == ~strs[i].live /\ \A k \in Strs : k < i => strs[k].live

\* a constructor body that sizes the buffer and then sizes it again: the
\* second call reallocates the buffer the first one obtained
ConstructResizesTwice(i, length, r, name, arg) ==
    LET first == UpdateBufferSize(NullString, heap, length, r) IN
    \E r2 \in Outcomes(first.s, first.h, length) :
       LET res == IF first.ok THEN UpdateBufferSize(first.s, first.h, length, r2)
                  ELSE first
       IN  /\ strs' = [strs EXCEPT ![i] = IF res.ok THEN res.s ELSE NoString]
           /\ heap' = IF res.ok THEN res.h ELSE Free(res.h, res.s._raw_data)
           /\ last' = Done(name, i, arg, res.ok)
           /\ UNCHANGED call

\* a constructor body calling _update_buffer_size(length) on fresh fields;
\* when it throws, no object comes to exist
Construct(i, length, r, name, arg) ==
    LET res == UpdateBufferSize(NullString, heap, length, r) IN
    /\ strs' = [strs EXCEPT ![i] = IF res.ok THEN res.s ELSE NoString]
    /\ heap' = res.h
    /\ last' = Done(name, i, arg, res.ok)
    /\ UNCHANGED call

\* WString::WString()
DefaultConstruct(i) ==
    /\ IsNext(i)
    /\ \E r \in Outcomes(NullString, heap, 0) :
          Construct(i, 0, r, "default", 0)

\* WString::WString(const WString& string)
CopyConstruct(i, j) ==
    /\ IsNext(i)
    /\ strs[j].live
    /\ \E r \in Outcomes(NullString, heap, strs[j]._length) :
          Construct(i, strs[j]._length, r, "copy", j)

\* a move constructor that takes the source's fields and leaves the source
\* as it was
MoveConstructShallow(i, j) ==
    /\ IsNext(i)
    /\ strs[j].live
    /\ strs' = [strs EXCEPT ![i] = strs[j]]
    /\ heap' = heap
    /\ last' = Done("move", i, j, TRUE)
    /\ UNCHANGED call

\* WString::WString(const WString&& string)
MoveConstruct(i, j) ==
    /\ IsNext(i)
    /\ strs[j].live
    /\ \E r \in Outcomes(NullString, heap, strs[j]._length) :
          Construct(i, strs[j]._length, r, "move", j)

\* a call of _update_buffer_size(n) on a constructed object
Resize(i, n) ==
    /\ strs[i].live
    /\ \E r \in Outcomes(strs[i], heap, n) :
          LET res == UpdateBufferSize(strs[i], heap, n, r) IN
          /\ strs' = [strs EXCEPT ![i] = res.s]
          /\ heap' = res.h
          /\ last' = Done("resize", i, n, res.ok)
          /\ UNCHANGED call

\* two objects: any constructions and resizes
Next ==
    \/ \E i \in Strs : DefaultConstruct(i)
    \/ \E i, j \in Strs : CopyConstruct(i, j)
    \/ \E i, j \in Strs : MoveConstruct(i, j)
    \/ \E i \in Strs, n \in Lengths : Resize(i, n)

Spec == Init /\ [][Next]_vars

\* one object, resized to every length up to MaxLen
NextResize ==
    \/ DefaultConstruct(1)
    \/ \E n \in 0..MaxLen : Resize(1, n)

SpecResize == Init /\ [][NextResize]_vars

\* --------------------------------------------------------------- contents

\* the code units [0, length) of object s
Content(s, h) ==
    IF s._length = 0 THEN <<>> ELSE SubSeq(h[s._raw_data].mem, 1, s._length)

\* the block at p with text written over its first units
WriteUnits(h, p, text) ==
    IF p = 0 THEN h
    ELSE [h EXCEPT ![p].mem =
            [k \in 1..Len(@) |-> IF k <= Len(text) THEN text[k] ELSE @[k]]]

\* WString::WString(const CharType* begin, const CharType* end): size the
\* buffer through _update_buffer_size, then copy the range into it
FromRange(i, text) ==
    /\ IsNext(i)
    /\ \E r \in Outcomes(NullString, heap, Len(text)) :
          LET res == UpdateBufferSize(NullString, heap, Len(text), r) IN
          /\ strs' = [strs EXCEPT ![i] = IF res.ok THEN res.s ELSE NoString]
          /\ heap' = IF res.ok THEN WriteUnits(res.h, res.s._raw_data, text)
                     ELSE res.h
          /\ last' = Done("range", i, Len(text), res.ok)
          /\ UNCHANGED call

\* ------------------------------------------- transforms: the static forms

\* towupper and towlower on the code units of the model
ToUpper(c) == IF c \in 97..122 THEN c - 32 ELSE c

ToLower(c) == IF c \in 65..90 THEN c + 32 ELSE c

\* n fill units
Fill(n, c) == [k \in 1..n |-> c]

\* static capitalize: first unit upper-cased, the others lower-cased
CapitalizeText(t) ==
    [k \in 1..Len(t) |-> IF k = 1 THEN ToUpper(t[k]) ELSE ToLower(t[k])]

\* static lower
LowerText(t) == [k \in 1..Len(t) |-> ToLower(t[k])]

\* static upper
UpperText(t) == [k \in 1..Len(t) |-> ToUpper(t[k])]

\* static center: the odd fill unit goes to the right
CenterText(t, width, fillchar) ==
    IF width <= Len(t) THEN t
    ELSE LET left == (width - Len(t)) \div 2 IN
         Fill(left, fillchar) \o t \o Fill(width - Len(t) - left, fillchar)

\* static expandtabs: col is the running column, reset by a newline
RECURSIVE ExpandFrom(_, _, _)
ExpandFrom(t, col, tabsize) ==
    IF t = <<>> THEN <<>>
    ELSE IF Head(t) = 9
    THEN LET n == IF tabsize = 0 THEN 0 ELSE tabsize - (col % tabsize) IN
         Fill(n, 32) \o ExpandFrom(Tail(t), col + n, tabsize)
    ELSE <<Head(t)>>
         \o ExpandFrom(Tail(t), IF Head(t) = 10 THEN 0 ELSE col + 1, tabsize)

ExpandTabsText(t, tabsize) == ExpandFrom(t, 0, tabsize)

\* static removesuffix
RemoveSuffixText(t, suffix) ==
    IF /\ Len(suffix) > 0
       /\ Len(suffix) <= Len(t)
       /\ SubSeq(t, Len(t) - Len(suffix) + 1, Len(t)) = suffix
    THEN SubSeq(t, 1, Len(t) - Len(suffix))
    ELSE t

\* static repeat
RepeatText(t, time) == [k \in 1..(time * Len(t)) |-> t[((k - 1) % Len(t)) + 1]]

\* static replace: up to count occurrences of from, left to right, not
\* overlapping; count = npos replaces all
RECURSIVE ReplaceText(_, _, _, _)
ReplaceText(t, from, to, count) ==
    IF count = 0 \/ Len(t) < Len(from) \/ Len(from) = 0 THEN t
    ELSE IF SubSeq(t, 1, Len(from)) = from
    THEN to \o ReplaceText(SubSeq(t, Len(from) + 1, Len(t)), from, to,
                           IF count = npos THEN npos ELSE count - 1)
    ELSE <<Head(t)>> \o ReplaceText(Tail(t), from, to, count)

\* the transforms that have both forms, each with the arguments it is called with
TransformCalls ==
    {[op |-> o, par |-> <<>>] : o \in {"capitalize", "lower", "upper"}}
    \cup {[op |-> "center", par |-> <<w, 32>>] : w \in 0..(MaxText + MaxArg)}
    \cup {[op |-> "expandtabs", par |-> <<n>>] : n \in 0..MaxArg}
    \cup {[op |-> "removesuffix", par |-> <<x>>] : x \in Texts}
    \cup {[op |-> "repeat", par |-> <<n>>] : n \in 0..MaxArg}
    \cup {[op |-> "replace", par |-> <<x, y, n>>] :
            x \in {u \in Texts : Len(u) = 1}, y \in Texts, n \in {1, npos}}

TransformOps == {c.op : c \in TransformCalls}

\* what the static form c.op(string, c.par...) leaves in a string holding t
StaticText(c, t) ==
    CASE c.op = "capitalize"   -> CapitalizeText(t)
      [] c.op = "lower"        -> LowerText(t)
      [] c.op = "upper"        -> UpperText(t)
      [] c.op = "center"       -> CenterText(t, c.par[1], c.par[2])
      [] c.op = "expandtabs"   -> ExpandTabsText(t, c.par[1])
      [] c.op = "removesuffix" -> RemoveSuffixText(t, c.par[1])
      [] c.op = "repeat"       -> RepeatText(t, c.par[1])
      [] c.op = "replace"      -> ReplaceText(t, c.par[1], c.par[2], c.par[3])

\* a static form run in place on object s: the new length goes through
\* _update_buffer_size (realloc outcome r), then the units are written
StaticForm(c, s, h, r) ==
    LET text == StaticText(c, Content(s, h)) IN
    IF Len(text) = s._length
    THEN [ok |-> TRUE, s |-> s, h |-> WriteUnits(h, s._raw_data, text)]
    ELSE LET res == UpdateBufferSize(s, h, Len(text), r) IN
         IF res.ok
         THEN [ok |-> TRUE, s |-> res.s,
               h |-> WriteUnits(res.h, res.s._raw_data, text)]
         ELSE res

\* ------------------------------------ transforms: the copy-returning forms

\* WString::~WString(): release the buffer
Destroyed(h, s) == Free(h, s._raw_data)

\* the instance forms declared noexcept
NoexceptInstanceForms == {"expandtabs"}

\* the static forms declared noexcept
NoexceptStaticForms ==
    {"capitalize", "expandtabs", "lower", "removesuffix", "replace", "upper"}

\* how a copy-returning call ends when the step named failed throws
\* MemoryError ("copy": WString result = (*this), "static": the static form):
\* an exception that leaves a noexcept function ends the process through
\* std::terminate, any other reaches the caller
Fate(op, failed) ==
    IF failed = "none" THEN "returned"
    ELSE IF \/ op \in NoexceptInstanceForms
            \/ failed = "static" /\ op \in NoexceptStaticForms
    THEN "terminate"
    ELSE "MemoryError"

\* the record of a copy-returning call: its result k, its receiver i and,
\* when it returned, its arguments
DoneCall(c, k, i, failed) ==
    [op |-> c.op, self |-> k, arg |-> IF failed = "none" THEN i ELSE 0,
     ok |-> failed = "none",
     par |-> IF failed = "none" THEN c.par ELSE <<>>,
     failed |-> failed, fate |-> Fate(c.op, failed)]

\* std::terminate has been called: the process has ended
Terminated == last.op \in TransformOps /\ last.fate = "terminate"

\* WString::op(result, par...) on the copy, then return result; a throw
\* unwinds through result's destructor
TransformCopy(c, k, i, copy) ==
    \E r2 \in Outcomes(copy.s, copy.h,
                       Len(StaticText(c, Content(copy.s, copy.h)))) :
       LET res == StaticForm(c, copy.s, copy.h, r2) IN
       /\ strs' = [strs EXCEPT ![k] = IF res.ok THEN res.s ELSE NoString]
       /\ heap' = IF res.ok THEN res.h ELSE Destroyed(res.h, res.s)
       /\ last' = DoneCall(c, k, i, IF res.ok THEN "none" ELSE "static")

\* s.op(par...): WString result = (*this); WString::op(result, par...);
\* return result;   The result is object k, the receiver object i.  A throw
\* from the copy leaves no result.
CopyReturning(c, k, i) ==
    /\ ~Terminated
    /\ IsNext(k)
    /\ strs[i].live
    /\ \E r1 \in Outcomes(NullString, heap, strs[i]._length) :
          LET copy == UpdateBufferSize(NullString, heap, strs[i]._length, r1) IN
          IF ~copy.ok
          THEN /\ strs' = strs
               /\ heap' = copy.h
               /\ last' = DoneCall(c, k, i, "copy")
          ELSE TransformCopy(c, k, i, copy)
    /\ UNCHANGED call

\* two objects: the first built from a text, the second from a text, by copy,
\* by move or as the result of a copy-returning transform of the first
NextText ==
    \/ \E i \in Strs, text \in Texts : ~Terminated /\ FromRange(i, text)
    \/ \E i, j \in Strs : ~Terminated /\ CopyConstruct(i, j)
    \/ \E i, j \in Strs : ~Terminated /\ MoveConstruct(i, j)
    \/ \E c \in TransformCalls, k, i \in Strs : CopyReturning(c, k, i)

SpecText == Init /\ [][NextText]_vars

\* ------------------------------------------------ case folding, twice over

\* the copy-returning form c of receiver s on heap h:  WString result =
\* (*this); WString::op(result, par...); return result;  with the realloc
\* outcomes r1 (of the copy) and r2 (of the static form)
CopyForm(c, s, h, r1, r2) ==
    LET copy == UpdateBufferSize(NullString, h, s._length, r1) IN
    IF ~copy.ok THEN [ok |-> FALSE, s |-> NoString, h |-> copy.h]
    ELSE LET res == StaticForm(c, copy.s, copy.h, r2) IN
         IF res.ok THEN res
         ELSE [ok |-> FALSE, s |-> NoString, h |-> Destroyed(res.h, res.s)]

\* WString::operator==: the same length and the same code units
Equal(a, b, h) == Content(a, h) = Content(b, h)

CaseForms == {"upper", "lower"}

CaseCall(op) == [op |-> op, par |-> <<>>]

\* the record of an evaluation of  s.first().second() == s.second()
DoneCompare(i, first, second, ok, equal) ==
    [op |-> "compare", self |-> i, arg |-> IF ok THEN <<first, second>> ELSE <<>>,
     ok |-> ok, equal |-> equal]

\* the right operand s.second() and the comparison, with the left operand
\* lhs built on heap h; the temporaries are destroyed when the expression ends
CompareWith(i, first, second, lhs, h, inner) ==
    \E r \in Outcomes(NullString, h, strs[i]._length) :
       LET rhs == CopyForm(CaseCall(second), strs[i], h, r, r) IN
       /\ heap' = Destroyed(Destroyed(Destroyed(rhs.h, rhs.s), lhs), inner)
       /\ last' = DoneCompare(i, first, second, rhs.ok,
                              rhs.ok /\ Equal(lhs, rhs.s, rhs.h))

\* the left operand s.first().second(), with inner == s.first() built
CompareAfter(i, first, second, inner, h) ==
    \E r \in Outcomes(NullString, h, inner._length) :
       LET lhs == CopyForm(CaseCall(second), inner, h, r, r) IN
       IF ~lhs.ok
       THEN /\ heap' = Destroyed(lhs.h, inner)
            /\ last' = DoneCompare(i, first, second, FALSE, FALSE)
       ELSE CompareWith(i, first, second, lhs.s, lhs.h, inner)

\* s.first().second() == s.second() on object i; a MemoryError from any of
\* the three calls ends the evaluation
CompareCaseFolds(i, first, second) ==
    /\ strs[i].live
    /\ \E r \in Outcomes(NullString, heap, strs[i]._length) :
          LET inner == CopyForm(CaseCall(first), strs[i], heap, r, r) IN
          IF ~inner.ok
          THEN /\ heap' = inner.h
               /\ last' = DoneCompare(i, first, second, FALSE, FALSE)
          ELSE CompareAfter(i, first, second, inner.s, inner.h)
    /\ UNCHANGED <<strs, call>>

\* objects built from texts, and the case foldings of each compared
NextCase ==
    \/ \E i \in Strs, text \in Texts : FromRange(i, text)
    \/ \E i \in Strs, first, second \in CaseForms :
          first # second /\ CompareCaseFolds(i, first, second)

SpecCase == Init /\ [][NextCase]_vars

\* ---------------------------------------------------------------- at(index)

\* at with the index checked against the capacity instead of the length
AtWithinCapacity(s, h, index) ==
    IF index >= s._allocated_size
    THEN [ok |-> FALSE, error |-> "IndexError", unit |-> 0]
    ELSE [ok |-> TRUE, error |-> "none", unit |-> h[s._raw_data].mem[index + 1]]

\* WString::at(index): IndexError when index is not in [0, length), the code
\* unit at that offset otherwise
At(s, h, index) ==
    IF index >= s._length
    THEN [ok |-> FALSE, error |-> "IndexError", unit |-> 0]
    ELSE [ok |-> TRUE, error |-> "none", unit |-> h[s._raw_data].mem[index + 1]]

\* s.at(index) on object i
CallAt(i, index) ==
    /\ strs[i].live
    /\ LET res == At(strs[i], heap, index) IN
       last' = [op |-> "at", self |-> i, arg |-> index, ok |-> res.ok,
                error |-> res.error, unit |-> res.unit]
    /\ UNCHANGED <<strs, heap, call>>

\* objects built from texts, read through at
NextAt ==
    \/ \E i \in Strs, text \in Texts : FromRange(i, text)
    \/ \E i \in Strs, index \in 0..MaxIndex : CallAt(i, index)

SpecAt == Init /\ [][NextAt]_vars

\* --------------------------------------------- the capacity computation

\* a call of _update_buffer_size(length) about to be made, for any length
\* SizeType holds
InitSize ==
    /\ strs = [i \in Strs |-> NoString]
    /\ heap = [a \in Addrs |-> FreeBlock]
    /\ \E length \in 0..(SizeModulus - 1) :
          last = [op |-> "request", self |-> 0, arg |-> length, ok |-> TRUE]
    /\ call = NoCall

\* the arithmetic of the first statements of _update_buffer_size(length):
\* new_size and the byte count handed to realloc
ComputeSize ==
    /\ last.op = "request"
    /\ last' = [op |-> "new_size", self |-> 0, arg |-> last.arg, ok |-> TRUE,
                new_size |-> NewSize(last.arg),
                nbytes |-> ByteCount(NewSize(last.arg))]
    /\ UNCHANGED <<strs, heap, call>>

NextSize == ComputeSize

SpecSize == InitSize /\ [][NextSize]_vars

\* ------------------------------------------------- throw MemoryError(...)

\* base::messages::ERROR_ALLOC_MEMORY, L"Memory allocation failed."
ERROR_ALLOC_MEMORY ==
    <<77, 101, 109, 111, 114, 121, 32, 97, 108, 108, 111, 99, 97, 116, 105,
      111, 110, 32, 102, 97, 105, 108, 101, 100, 46>>

\* WString::WString(const CharType* const string): size the buffer through
\* _update_buffer_size, then copy the C string into it
FromCString(h, text, r) ==
    LET res == UpdateBufferSize(NullString, h, Len(text), r) IN
    IF res.ok
    THEN [ok |-> TRUE, s |-> res.s, h |-> WriteUnits(res.h, res.s._raw_data, text)]
    ELSE res

\* The operand of  throw MemoryError(base::messages::ERROR_ALLOC_MEMORY)  is
\* built before anything is thrown: a temporary String from the C string,
\* then the exception object, whose member _message is copy-constructed from
\* the temporary.  Both constructors call _update_buffer_size, which on a
\* failed realloc evaluates the same throw expression one frame deeper.
\* call.frames holds, for each throw expression under evaluation, its
\* temporary String (NoString until it is built); the last frame is running.

\* _update_buffer_size(n) on object i, its realloc failing: the throw
\* expression starts
ResizeFails(i, n) ==
    /\ call.status = "idle"
    /\ strs[i].live
    /\ NewSize(n) # 0
    /\ call' = [status |-> "throwing", self |-> i, frames |-> <<NoString>>]
    /\ UNCHANGED <<strs, heap, last>>

\* _update_buffer_size(n) on object i, returning
ResizeReturns(i, n) ==
    /\ call.status = "idle"
    /\ Resize(i, n)
    /\ last'.ok

\* the heap with the temporaries of the frames destroyed
RECURSIVE Unwound(_, _)
Unwound(h, frames) ==
    IF frames = <<>> THEN h
    ELSE Unwound(IF Head(frames).live THEN Destroyed(h, Head(frames)) ELSE h,
                 Tail(frames))

\* the next constructor of the running frame: the temporary String, or the
\* exception object's _message.  When its realloc fails, the throw expression
\* is evaluated again in a new frame; when _message is built, the exception
\* is thrown and unwinds through every frame.
ThrowStep ==
    /\ call.status = "throwing"
    /\ LET d    == Len(call.frames)
           temp == call.frames[d]
       IN  \E r \in Outcomes(NullString, heap, Len(ERROR_ALLOC_MEMORY)) :
              IF ~r.ok
              THEN /\ d < StackFrames
                   /\ call' = [call EXCEPT !.frames = Append(@, NoString)]
                   /\ heap' = heap
              ELSE IF ~temp.live
              THEN LET res == FromCString(heap, ERROR_ALLOC_MEMORY, r) IN
                   /\ call' = [call EXCEPT !.frames[d] = res.s]
                   /\ heap' = res.h
              ELSE LET res == UpdateBufferSize(NullString, heap, temp._length, r) IN
                   /\ call' = [status |-> "thrown", self |-> call.self,
                               message |-> res.s]
                   /\ heap' = Unwound(res.h, call.frames)
    /\ UNCHANGED <<strs, last>>

\* a realloc fails in the deepest frame the stack has room for: the next
\* frame exhausts the stack and the process ends
ThrowOverflow ==
    /\ call.status = "throwing"
    /\ Len(call.frames) = StackFrames
    /\ call' = [status |-> "overflow"]
    /\ UNCHANGED <<strs, heap, last>>

\* the caller catches the MemoryError; the exception object is destroyed
CatchMemoryError ==
    /\ call.status = "thrown"
    /\ heap' = Destroyed(heap, call.message)
    /\ last' = Done("resize", call.self, 0, FALSE)
    /\ call' = NoCall
    /\ UNCHANGED strs

\* one object and its resizes, the failing ones step by step
NextThrow ==
    \/ call.status = "idle" /\ DefaultConstruct(1)
    \/ \E n \in Lengths : ResizeReturns(1, n)
    \/ \E n \in Lengths : ResizeFails(1, n)
    \/ ThrowStep
    \/ ThrowOverflow
    \/ CatchMemoryError

SpecThrow == Init /\ [][NextThrow]_vars

\* ------------------------------------------------- search: the static forms

\* the end of the window [begin, end) in a string of n units; npos means n
WindowEnd(n, end) == IF end = npos \/ end > n THEN n ELSE end

\* the offsets in [begin, end) at which substring lies wholly in the window
Occurrences(t, substring, begin, end) ==
    {k \in begin..(WindowEnd(Len(t), end) - Len(substring)) :
        SubSeq(t, k + 1, k + Len(substring)) = substring}

Lowest(S) == CHOOSE k \in S : \A m \in S : k <= m

Highest(S) == CHOOSE k \in S : \A m \in S : m <= k

\* what the static form fn(string, substring, begin, end) returns; index and
\* rindex throw ValueError where find and rfind return npos
StaticSearch(fn, t, substring, begin, end) ==
    LET occ == Occurrences(t, substring, begin, end) IN
    CASE fn = "find"       -> IF occ = {} THEN npos ELSE Lowest(occ)
      [] fn = "rfind"      -> IF occ = {} THEN npos ELSE Highest(occ)
      [] fn = "index"      -> IF occ = {} THEN "ValueError" ELSE Lowest(occ)
      [] fn = "rindex"     -> IF occ = {} THEN "ValueError" ELSE Highest(occ)
      [] fn = "startswith" -> begin \in occ

\* ----------------------------------------------- search: the instance forms

\* the instance forms whose body is  return WString::fn((*this), begin, end);
SearchForms == {"find", "rfind", "index", "rindex", "startswith"}

\* the texts and the windows the searches are called with
SearchTexts == {t \in Texts : Len(t) <= 1}

Windows == (0..MaxArg) \X ((0..MaxArg) \cup {npos})

\* s.fn(substring, begin, end) is called: object i is s, object j the
\* substring.  given keeps the caller's substring.
CallSearch(fn, i, j, w) ==
    /\ call.status = "idle"
    /\ strs[i].live /\ strs[j].live
    /\ call' = [status |-> "running", fn |-> fn, self |-> i, substring |-> j,
                begin |-> w[1], end |-> w[2], given |-> j, depth |-> 1]
    /\ UNCHANGED <<strs, heap, last>>

\* the body of the instance form.  Three arguments fit no static form (their
\* second parameter is a WString, begin is a SizeType), so the call resolves
\* to the instance form itself, with (*this) as its substring: it runs in a
\* new frame, or in the same frame where the build turns the call into a jump.
ForwardSearch ==
    /\ call.status = "running"
    /\ \E d \in {call.depth, call.depth + 1} :
          /\ d <= StackFrames
          /\ call' = [call EXCEPT !.substring = call.self, !.depth = d]
    /\ UNCHANGED <<strs, heap, last>>

\* no frame is left for the next call: the process ends
StackOverflow ==
    /\ call.status = "running"
    /\ call.depth = StackFrames
    /\ call' = [call EXCEPT !.status = "overflow"]
    /\ UNCHANGED <<strs, heap, last>>

\* two objects built from texts, then instance-form searches
NextSearch ==
    \/ \E i \in Strs, text \in SearchTexts : call.status = "idle" /\ FromRange(i, text)
    \/ \E fn \in SearchForms, i, j \in Strs, w \in Windows : CallSearch(fn, i, j, w)
    \/ ForwardSearch
    \/ StackOverflow

SpecSearch == Init /\ [][NextSearch]_vars

\* ------------------------------------------------------------------- claims

Live == {i \in Strs : strs[i].live}

\* the bytes of the code unit at offset k of object i's buffer
UnitBytes(i, k) ==
    [b \in 1..CharSize |-> (heap[strs[i]._raw_data].mem[k + 1] \div Pow256(b - 1)) % 256]

\* the least multiple of the growth quantum that is at least m
LeastMultipleAtLeast(m) ==
    CHOOSE c \in m..(m + DEFAULT_ALLOCATE_SIZE) :
        /\ c % DEFAULT_ALLOCATE_SIZE = 0
        /\ \A d \in m..(c - 1) : d % DEFAULT_ALLOCATE_SIZE # 0

\* C1: in every reachable state every object has capacity() >= length() + 1,
\* so that the buffer has a slot for the terminator.
CapacityHoldsTerminator ==
    \A i \in Live : strs[i]._allocated_size >= strs[i]._length + 1

\* C2: in every reachable state every object has a buffer whose code unit at
\* offset length() lies in the buffer and is 0 (all its bytes are 0).
TerminatorIsZero ==
    \A i \in Live :
        /\ strs[i]._raw_data # 0
        /\ strs[i]._length < strs[i]._allocated_size
        /\ \A b \in 1..CharSize : UnitBytes(i, strs[i]._length)[b] = 0

ResizeLeavesRoomForTerminator ==
    (last.op = "resize" /\ last.ok) =>
        /\ strs[last.self]._allocated_size = LeastMultipleAtLeast(last.arg + 1)
        /\ strs[last.self]._length = last.arg

Allocated(h) == {a \in Addrs : h[a].alloc}

\* C6: a step that copy-constructs b from a leaves b with a's length and a's
\* code units in storage of its own, and leaves a and a's buffer unchanged.
CopyDuplicatesSource ==
    [][(last'.op = "copy" /\ last'.ok) =>
        LET b == last'.self
            a == last'.arg
        IN  /\ strs'[b]._length = strs[a]._length
            /\ Content(strs'[b], heap') = Content(strs[a], heap)
            /\ strs'[b]._raw_data # 0 => strs'[b]._raw_data # strs'[a]._raw_data
            /\ strs'[a] = strs[a]
            /\ Content(strs'[a], heap') = Content(strs[a], heap)]_vars

\* C7: a step that move-constructs b from a hands a's buffer, length and code
\* units to b, leaves a empty (length 0, no buffer) and allocates nothing.
MoveTransfersOwnership ==
    [][(last'.op = "move" /\ last'.ok) =>
        LET b == last'.self
            a == last'.arg
        IN  /\ strs'[b]._raw_data = strs[a]._raw_data
            /\ strs'[b]._length = strs[a]._length
            /\ Content(strs'[b], heap') = Content(strs[a], heap)
            /\ strs'[a]._length = 0
            /\ strs'[a]._raw_data = 0
            /\ Allocated(heap') = Allocated(heap)]_vars

\* C8: no two live objects hold the same non-null data pointer.
NoSharedBuffer ==
    \A i, j \in Live :
        (i # j /\ strs[i]._raw_data # 0) => strs[i]._raw_data # strs[j]._raw_data

\* C8 witness: an object move-constructed from one that holds a buffer, both
\* holding buffers
MovedFromAllocated ==
    /\ last.op = "move" /\ last.ok
    /\ strs[last.self]._raw_data # 0
    /\ strs[last.arg]._raw_data # 0

\* C9: a step in which a copy-returning transform of s returns leaves s's
\* length, capacity and code units unchanged, and its result holds what the
\* static form leaves in a string of s's length and code units.
CopyFormAgreesWithStaticForm ==
    [][(last'.op \in TransformOps /\ last'.ok) =>
        LET res == last'.self
            s   == last'.arg
        IN  /\ strs'[s] = strs[s]
            /\ Content(strs'[s], heap') = Content(strs[s], heap)
            /\ Content(strs'[res], heap') =
                  StaticText([op |-> last'.op, par |-> last'.par],
                             Content(strs[s], heap))]_vars

\* C10: an instance-form search s.fn(sub, begin, end) searches for the
\* substring its caller gave, ends by returning, and returns what the static
\* form returns for (s, sub, begin, end).
InstanceSearchAgreesWithStatic ==
    /\ call.status = "running" =>
          Content(strs[call.substring], heap) = Content(strs[call.given], heap)
    /\ call.status # "overflow"
    /\ call.status = "returned" =>
          call.result = StaticSearch(call.fn, Content(strs[call.self], heap),
                                     Content(strs[call.given], heap),
                                     call.begin, call.end)

\* C11: s.upper().lower() == s.lower() and s.lower().upper() == s.upper()
\* for every string s: whenever the comparison is evaluated, it is true.
CaseFoldingTwiceIsOnce ==
    (last.op = "compare" /\ last.ok) => last.equal

\* C12: after a successful resize every code unit in [length, capacity) is
\* zero in all of its sizeof(CharType) bytes.
TailIsZeroFilled ==
    (last.op = "resize" /\ last.ok) =>
        LET s == strs[last.self] IN
        \A k \in s._length..(s._allocated_size - 1) :
            heap[s._raw_data].mem[k + 1] = 0

\* C13: in every reachable state an object whose capacity() is 0 has a null
\* data pointer, and every allocated block is the buffer of an object whose
\* capacity() is not 0.
ZeroCapacityHoldsNoBuffer ==
    /\ \A i \in Live : strs[i]._allocated_size = 0 => strs[i]._raw_data = 0
    /\ \A a \in Allocated(heap) :
          \E i \in Live : strs[i]._raw_data = a /\ strs[i]._allocated_size # 0

\* C13 witness: object 1 has just been resized to capacity 0 while object 2
\* holds a buffer at the second address
ResizedToZeroCapacity ==
    /\ last.op = "resize" /\ last.ok /\ last.self = 1
    /\ strs[1]._allocated_size = 0
    /\ strs[2].live /\ strs[2]._raw_data = 2
    /\ strs[2]._allocated_size = DEFAULT_ALLOCATE_SIZE

\* the data pointers the live objects hold
Referenced == {strs[i]._raw_data : i \in Live} \ {0}

\* C14: across the resizes of one string, failed ones and those to length 0
\* included: the string never refers to a freed buffer, no allocated buffer
\* is left unreferenced, and a step frees no block other than the one the
\* string held, which it then no longer refers to (so no block is freed twice).
NoLeakNoDoubleFree ==
    /\ [](Referenced = Allocated(heap))
    /\ [][\A a \in Addrs :
            (heap[a].alloc /\ ~heap'[a].alloc) =>
                /\ a \in Referenced
                /\ a \notin {strs'[i]._raw_data : i \in Strs}]_vars

\* C14 witness: a failed resize of a buffer that an earlier resize moved
FailedResizeOfMovedBuffer ==
    /\ last.op = "resize" /\ ~last.ok
    /\ strs[1]._raw_data = 2
    /\ ~heap[1].alloc

\* C15: at(index) fails with IndexError whenever index >= length() (so for
\* index == length() and for an index past the capacity), returns the code
\* unit at offset index otherwise, and never changes the string.
AtChecksIndexAgainstLength ==
    /\ [](last.op = "at" =>
            LET s == strs[last.self] IN
            IF last.arg >= s._length
            THEN ~last.ok /\ last.error = "IndexError"
            ELSE last.ok /\ last.unit = Content(s, heap)[last.arg + 1])
    /\ [][last'.op = "at" => (strs' = strs /\ heap' = heap)]_vars

\* C15 witness: at(length()) on a string of two code units failed
AtLengthFailed ==
    /\ last.op = "at" /\ ~last.ok
    /\ strs[last.self]._length = MaxText
    /\ last.arg = strs[last.self]._length

\* C16: when the allocation of the result copy fails, the copy-returning
\* expandtabs(tabsize) reports MemoryError to its caller, as the other
\* copy-returning transforms do: the process is not terminated.
ExpandtabsReportsMemoryError ==
    (last.op \in TransformOps /\ last.failed = "copy") =>
        last.fate = "MemoryError"

\* C17: in every state reached by constructions and resizes (lengths small
\* enough that nothing wraps), every object has capacity() >= length().
CapacityAtLeastLength ==
    \A i \in Live : strs[i]._allocated_size >= strs[i]._length

\* C17 witness: an object resized to a length just above a multiple of the
\* growth quantum, beside one whose length fills its capacity
ResizedJustAboveQuantum ==
    /\ last.op = "resize" /\ last.ok
    /\ last.arg = DEFAULT_ALLOCATE_SIZE + 1
    /\ strs[last.self]._length = DEFAULT_ALLOCATE_SIZE + 1
    /\ \E j \in Live : /\ strs[j]._length = DEFAULT_ALLOCATE_SIZE
                       /\ strs[j]._allocated_size = strs[j]._length

\* C18: a step in which _update_buffer_size computes capacity 0 (a resize to
\* length 0, or default construction) releases the buffer the object held and
\* leaves the object unallocated: data null, capacity 0, length 0.
ZeroCapacityReleasesBuffer ==
    [][(last'.op \in {"resize", "default"} /\ last'.ok /\ NewSize(last'.arg) = 0) =>
        LET i == last'.self IN
        /\ strs'[i] = NullString
        /\ Allocated(heap') = Allocated(heap) \ {strs[i]._raw_data}]_vars

\* C18 witness: object 1 was resized to length 0 after it held a buffer
\* (object 2's buffer was moved to the third address while object 1 held one
\* of the first two)
ReleasedByResizeToZero ==
    /\ last.op = "resize" /\ last.ok /\ last.self = 1 /\ last.arg = 0
    /\ strs[1] = NullString
    /\ strs[2].live /\ strs[2]._raw_data = 3
    /\ Allocated(heap) = {3}

\* C19: a step that constructs an object (default, copy, move) changes the
\* object and the heap as exactly one call of _update_buffer_size on freshly
\* initialised fields does, with length 0 or the source's length: nothing
\* else allocates, reallocates or frees, and a construction that throws
\* changes nothing.
ConstructionResizesOnce ==
    [][(last'.op \in {"default", "copy", "move"}) =>
        LET i == last'.self
            n == IF last'.op = "default" THEN 0 ELSE strs[last'.arg]._length
        IN  IF last'.ok
            THEN \E r \in Outcomes(NullString, heap, n) :
                    LET res == UpdateBufferSize(NullString, heap, n, r) IN
                    /\ res.ok
                    /\ strs' = [strs EXCEPT ![i] = res.s]
                    /\ heap' = res.h
            ELSE strs' = strs /\ heap' = heap]_vars

\* C19 witness: an object copy-constructed from a source of length 11 holds
\* a buffer of its own of capacity 20
CopyConstructedWithBuffer ==
    /\ last.op = "copy" /\ last.ok
    /\ strs[last.arg]._length = DEFAULT_ALLOCATE_SIZE + 1
    /\ strs[last.self]._raw_data # 0
    /\ strs[last.self]._allocated_size = 2 * DEFAULT_ALLOCATE_SIZE

SizeComputationDoesNotWrap ==
    last.op = "new_size" =>
        /\ last.new_size >= last.arg
        /\ last.nbytes >= last.arg * CharSize

\* C22: once realloc has failed in _update_buffer_size, raising MemoryError
\* completes whatever the later allocations do (also when they all fail):
\* building the exception never nests throw expressions until the stack is
\* exhausted.
ThrowCompletes ==
    call.status # "overflow"

\* C23: after a successful resize to n, length() is n, and length() and
\* capacity() depend on n alone: two strings of the same length have the
\* same capacity, whatever lengths and capacities each had before.
SizeDependsOnRequestAlone ==
    /\ (last.op = "resize" /\ last.ok) => strs[last.self]._length = last.arg
    /\ \A i, j \in Live :
          strs[i]._length = strs[j]._length =>
              strs[i]._allocated_size = strs[j]._allocated_size

\* C23 witness: object 1, whose buffer an earlier, longer resize moved behind
\* those of both objects, has been resized to length 1 beside object 2, of
\* length 1 as well
ShrunkBesideSameLength ==
    /\ last.op = "resize" /\ last.ok /\ last.self = 1 /\ last.arg = 1
    /\ strs[1]._raw_data = 3
    /\ strs[2].live /\ strs[2]._length = 1

\* C24: the memset of a returning _update_buffer_size writes only bytes of
\* the buffer, offsets [0, capacity * sizeof(CharType)), and writes nothing
\* when the buffer is null.
ZeroFillStaysInBuffer ==
    (last.op \in {"default", "copy", "move", "resize"} /\ last.ok) =>
        LET s       == strs[last.self]
            written == MemsetRange(s._length,
                                   ClearCount(s._allocated_size, s._length))
        IN  IF s._raw_data = 0 THEN written = {}
            ELSE /\ heap[s._raw_data].alloc
                 /\ written \subseteq
                       0..(Len(heap[s._raw_data].mem) * CharSize - 1)

\* C24 witness: a resize to length 9 has cleared one byte, the first of the
\* buffer's last code unit
ClearedLastUnitsFirstByte ==
    /\ last.op = "resize" /\ last.ok
    /\ last.arg = DEFAULT_ALLOCATE_SIZE - 1
    /\ MemsetRange(strs[1]._length,
                   ClearCount(strs[1]._allocated_size, strs[1]._length))
          = {(DEFAULT_ALLOCATE_SIZE - 1) * CharSize}

====
